---- MODULE Spec2Model ----
(***************************************************************************)
(* Model of src/src/app/Evaluator.py: the Evaluator that aligns an         *)
(* auto-annotated document with a ground-truth document by entry id and    *)
(* computes precision / recall / f1-score globally, per theme and per      *)
(* (theme, code).                                                          *)
(*                                                                         *)
(* Representation.  A JSON object is a function from its keys (strings) to *)
(* its values; a JSON array is a sequence.  A confidence or a threshold is *)
(* an integer number of tenths (9 is 0.9, 10 is 1.0, 11 is 1.1).  A text   *)
(* is a sequence of one-character strings, so that str.strip() is          *)
(* computed.  A metric (a Python float quotient of two small integers) is  *)
(* the reduced fraction <<numerator, denominator>>; 0.0 is <<0, 1>>.       *)
(***************************************************************************)
EXTENDS Integers, Sequences, FiniteSets, TLC

(***************************************************************************)
(* Bounds of the model.                                                    *)
(***************************************************************************)
MaxId == 2

MaxAnswers == 2

MaxPairs == 2

MaxTags == 2

MaxCalls == 2

\* Entries of the input file of a pipeline.
MaxEntries == 2

(***************************************************************************)
(* Program constants.                                                      *)
(***************************************************************************)
\* details.get("confidence", 1.0): the default confidence, in tenths.
DefaultConfidence == 10

\* min_confidence: float = 0.5, in tenths.
DefaultMinConfidence == 5

\* evaluator.evaluate_precision_recall(min_confidence=0.7), in tenths.
MainMinConfidence == 7

(***************************************************************************)
(* Python built-ins used by the Evaluator.                                 *)
(***************************************************************************)
\* dict.get(k, default)
Get(d, k, default) == IF k \in DOMAIN d THEN d[k] ELSE default

\* The empty dict {}.
EmptyDict == [k \in {} |-> 0]

\* The characters str.strip() removes.
Whitespace == {" ", "\t", "\n"}

RECURSIVE LStrip(_)
LStrip(s) ==
    IF s # <<>> /\ Head(s) \in Whitespace THEN LStrip(Tail(s)) ELSE s

RECURSIVE RStrip(_)
RStrip(s) ==
    IF s # <<>> /\ s[Len(s)] \in Whitespace
    THEN RStrip(SubSeq(s, 1, Len(s) - 1))
    ELSE s

\* str.strip()
Strip(s) == RStrip(LStrip(s))

RECURSIVE GCD(_, _)
GCD(a, b) == IF b = 0 THEN a ELSE GCD(b, a % b)

\* num / denom for denom > 0: the quotient as a reduced fraction.
Quotient(num, denom) ==
    LET g == GCD(num, denom) IN <<num \div g, denom \div g>>

\* The float 0.0
ZeroFloat == <<0, 1>>

\* The float 1.0
OneFloat == <<1, 1>>

(***************************************************************************)
(* Evaluator._align_entries                                                *)
(***************************************************************************)
\* gt_map = {entry["id"]: entry for entry in self.gt_data["answers"]}
\* (a later entry with the same id replaces an earlier one)
GtMap(answers) ==
    LET ids == {answers[i]["id"] : i \in 1..Len(answers)}
        last(id) == CHOOSE i \in 1..Len(answers) :
                       /\ answers[i]["id"] = id
                       /\ \A j \in 1..Len(answers) : answers[j]["id"] = id => j <= i
    IN [id \in ids |-> answers[last(id)]]

\* gt_entry = gt_map.get(auto_id); "if gt_entry:" holds for a non-empty dict.
GtFound(gt_map, auto_id) ==
    /\ auto_id \in DOMAIN gt_map
    /\ DOMAIN gt_map[auto_id] # {}

\* AlignOne with a text mismatch treated as a missing entry.
AlignOne_TextExcludes(acc, auto_entry, gt_map) ==
    LET auto_id == auto_entry["id"] IN
    IF /\ GtFound(gt_map, auto_id)
       /\ Strip(auto_entry["text"]) = Strip(gt_map[auto_id]["text"])
    THEN [aligned_pairs |-> Append(acc.aligned_pairs, <<auto_entry, gt_map[auto_id]>>),
          missing_count |-> acc.missing_count,
          out |-> acc.out]
    ELSE [aligned_pairs |-> acc.aligned_pairs,
          missing_count |-> acc.missing_count + 1,
          out |-> Append(acc.out, [msg |-> "NotInGT", id |-> auto_id])]

\* AlignOne without "missing_count += 1".
AlignOne_NoCount(acc, auto_entry, gt_map) ==
    LET auto_id == auto_entry["id"] IN
    IF GtFound(gt_map, auto_id)
    THEN [aligned_pairs |-> Append(acc.aligned_pairs, <<auto_entry, gt_map[auto_id]>>),
          missing_count |-> acc.missing_count,
          out |-> acc.out]
    ELSE [aligned_pairs |-> acc.aligned_pairs,
          missing_count |-> acc.missing_count,
          out |-> Append(acc.out, [msg |-> "NotInGT", id |-> auto_id])]

\* One iteration of "for auto_entry in self.auto_data['answers']" applied to
\* the loop's locals acc = [aligned_pairs, missing_count, out].
AlignOne(acc, auto_entry, gt_map) ==
    LET auto_id == auto_entry["id"] IN
    IF GtFound(gt_map, auto_id)
    THEN LET gt_entry == gt_map[auto_id]
             warn == IF Strip(auto_entry["text"]) # Strip(gt_entry["text"])
                     THEN <<[msg |-> "TextMismatch", id |-> auto_id]>>
                     ELSE <<>>
         IN [aligned_pairs |-> Append(acc.aligned_pairs, <<auto_entry, gt_entry>>),
             missing_count |-> acc.missing_count,
             out |-> acc.out \o warn]
    ELSE [aligned_pairs |-> acc.aligned_pairs,
          missing_count |-> acc.missing_count + 1,
          out |-> Append(acc.out, [msg |-> "NotInGT", id |-> auto_id])]

RECURSIVE AlignLoop(_, _, _, _)
AlignLoop(acc, answers, i, gt_map) ==
    IF i > Len(answers) THEN acc
    ELSE AlignLoop(AlignOne(acc, answers[i], gt_map), answers, i + 1, gt_map)

\* The whole of _align_entries: the locals at its return statement, out being
\* the lines it printed.
_align_entries(auto, gt) ==
    LET warnq == IF auto["question"] # gt["question"]
                 THEN <<[msg |-> "QuestionsDiffer"]>>
                 ELSE <<>>
        start == [aligned_pairs |-> <<>>, missing_count |-> 0, out |-> warnq]
        done  == AlignLoop(start, auto["answers"], 1, GtMap(gt["answers"]))
    IN [aligned_pairs |-> done.aligned_pairs,
        missing_count |-> done.missing_count,
        out |-> Append(done.out,
                       [msg |-> "Aligned",
                        aligned |-> Len(done.aligned_pairs),
                        skipped |-> done.missing_count])]

\* What a raised KeyError leaves behind: no Evaluator, the lines printed so far.
Raised(out) ==
    [pc |-> "failed", aligned_pairs |-> <<>>, missing_count |-> 0, out |-> out]

\* Construct with the KeyError swallowed: an Evaluator with nothing aligned.
Construct_Swallow(auto, gt) ==
    IF {"question", "answers"} \subseteq (DOMAIN auto \cap DOMAIN gt)
    THEN [pc |-> "ready"] @@ _align_entries(auto, gt)
    ELSE [pc |-> "ready", aligned_pairs |-> <<>>, missing_count |-> 0, out |-> <<>>]

\* Evaluator.__init__ after the two json.load calls: the subscripts of
\* _align_entries raise KeyError in the order the code evaluates them, the
\* "question" of both documents first (line 27), then the "answers" of the
\* GT document (line 31), then the "answers" of the auto document (line 37).
Construct(auto, gt) ==
    IF "question" \notin DOMAIN auto \/ "question" \notin DOMAIN gt
    THEN Raised(<<>>)
    ELSE IF "answers" \notin DOMAIN gt \/ "answers" \notin DOMAIN auto
         THEN Raised(IF auto["question"] # gt["question"]
                     THEN <<[msg |-> "QuestionsDiffer"]>>
                     ELSE <<>>)
         ELSE [pc |-> "ready"] @@ _align_entries(auto, gt)

(***************************************************************************)
(* Evaluator._collect_codes                                                *)
(***************************************************************************)
\* The (theme, code) pairs the two nested loops of _collect_codes visit.
CodeItems(annotations) ==
    UNION {{<<theme, code>> : code \in DOMAIN annotations[theme]} :
              theme \in DOMAIN annotations}

\* _collect_codes with an exclusive threshold.
_collect_codes_exclusive(annotations, min_confidence) ==
    {p \in CodeItems(annotations) :
        Get(annotations[p[1]][p[2]], "confidence", DefaultConfidence) > min_confidence}

\* _collect_codes with the comparison the wrong way round.
_collect_codes_inverted(annotations, min_confidence) ==
    {p \in CodeItems(annotations) :
        Get(annotations[p[1]][p[2]], "confidence", DefaultConfidence) <= min_confidence}

_collect_codes(annotations, min_confidence) ==
    {p \in CodeItems(annotations) :
        LET details == annotations[p[1]][p[2]]
            confidence == Get(details, "confidence", DefaultConfidence)
        IN confidence >= min_confidence}

(***************************************************************************)
(* Evaluator.evaluate_precision_recall: the accumulators                   *)
(***************************************************************************)
\* defaultdict(lambda: {"tp": 0, "fp": 0, "fn": 0})
ZeroCounts == [tp |-> 0, fp |-> 0, fn |-> 0]

\* tps, fps, fns of one aligned pair.
TruePositives(auto_codes, gt_codes) == auto_codes \cap gt_codes

\* fps without the subtraction.
FalsePositives_All(auto_codes, gt_codes) == auto_codes

FalsePositives(auto_codes, gt_codes) == auto_codes \ gt_codes

\* fns without the subtraction.
FalseNegatives_All(auto_codes, gt_codes) == gt_codes

FalseNegatives(auto_codes, gt_codes) == gt_codes \ auto_codes

\* The locals of one loop iteration up to "fns = gt_codes - auto_codes".
PairSets(auto_entry, gt_entry, min_confidence) ==
    LET ac == _collect_codes(Get(auto_entry, "annotations", EmptyDict), min_confidence)
        gc == _collect_codes(Get(gt_entry, "annotations", EmptyDict), min_confidence)
    IN [auto_codes |-> ac,
        gt_codes |-> gc,
        tps |-> TruePositives(ac, gc),
        fps |-> FalsePositives(ac, gc),
        fns |-> FalseNegatives(ac, gc)]

\* BumpTheme counting a theme once however many of its codes are in tags.
BumpTheme_Once(counts, tags, field) ==
    [theme \in DOMAIN counts \cup {p[1] : p \in tags} |->
        [Get(counts, theme, ZeroCounts) EXCEPT
            ![field] = @ + (IF \E p \in tags : p[1] = theme THEN 1 ELSE 0)]]

\* "for theme, code in tags: per_theme_counts[theme][field] += 1"
BumpTheme(counts, tags, field) ==
    [theme \in DOMAIN counts \cup {p[1] : p \in tags} |->
        [Get(counts, theme, ZeroCounts) EXCEPT
            ![field] = @ + Cardinality({p \in tags : p[1] = theme})]]

\* "for theme, code in tags: per_code_counts[(theme, code)][field] += 1"
BumpCode(counts, tags, field) ==
    [p \in DOMAIN counts \cup tags |->
        IF p \in tags
        THEN [Get(counts, p, ZeroCounts) EXCEPT ![field] = @ + 1]
        ELSE counts[p]]

\* The insertion order of per_code_counts: a sequence of batches, a batch being
\* the keys one "for theme, code in <set>" loop inserted.  Python iterates a
\* set of string tuples in an order that depends on the hash seed, so the
\* order inside a batch is not determined.
AddBatch(order, known, tags) ==
    IF tags \ known = {} THEN order ELSE Append(order, tags \ known)

(***************************************************************************)
(* Evaluator.evaluate_precision_recall: the report                         *)
(***************************************************************************)
\* safe_div with 1.0 as the value of a quotient by zero.
safe_div_One(num, denom) == IF denom > 0 THEN Quotient(num, denom) ELSE OneFloat

safe_div(num, denom) == IF denom > 0 THEN Quotient(num, denom) ELSE ZeroFloat

\* Metrics with tp + fp + fn as the denominator of the f1-score.
Metrics_F1(tp, fp, fn) ==
    ("precision" :> safe_div(tp, tp + fp)) @@
    ("recall" :> safe_div(tp, tp + fn)) @@
    ("f1-score" :> safe_div(2 * tp, tp + fp + fn))

\* The three metrics computed from a counter (tp, fp, fn).
Metrics(tp, fp, fn) ==
    ("precision" :> safe_div(tp, tp + fp)) @@
    ("recall" :> safe_div(tp, tp + fn)) @@
    ("f1-score" :> safe_div(2 * tp, 2 * tp + fp + fn))

GlobalReport(tp, fp, fn, n) == Metrics(tp, fp, fn) @@ ("evaluated_entries" :> n)

PerThemeReport(counts) ==
    [theme \in DOMAIN counts |->
        Metrics(counts[theme].tp, counts[theme].fp, counts[theme].fn)]

\* key = f"{theme}|{code}"
Key(theme, code) == theme \o "|" \o code

\* The index of the last batch of the insertion order that holds a key
\* serialized as k.
LastBatch(order, k) ==
    CHOOSE i \in 1..Len(order) :
        /\ \E p \in order[i] : Key(p[1], p[2]) = k
        /\ \A j \in 1..Len(order) :
              (\E p \in order[j] : Key(p[1], p[2]) = k) => j <= i

\* The place of x in a sequence without repetitions.
Position(seq, x) == CHOOSE i \in 1..Len(seq) : seq[i] = x

\* results["per_code"][key] = {...} in insertion order.  The entry of a string
\* key is that of the (theme, code) written last under it; among those of one
\* batch, that is the one the process iterates last.
PerCodeReport(counts, order, iteration) ==
    LET keys == {Key(p[1], p[2]) : p \in DOMAIN counts}
        last(k) == {p \in order[LastBatch(order, k)] : Key(p[1], p[2]) = k}
        writer(k) ==
            IF Cardinality(last(k)) = 1 THEN CHOOSE p \in last(k) : TRUE
            ELSE CHOOSE p \in last(k) :
                    \A q \in last(k) : Position(iteration, q) <= Position(iteration, p)
    IN [k \in keys |->
           Metrics(counts[writer(k)].tp, counts[writer(k)].fp, counts[writer(k)].fn)]

(***************************************************************************)
(* The input documents the model is run on.                                *)
(***************************************************************************)
Entry(id, text, annotations) ==
    [id |-> id, text |-> text, annotations |-> annotations]

\* An entry whose "annotations" key is absent.
BareEntry(id, text) == [id |-> id, text |-> text]

Document(question, answers) == [question |-> question, answers |-> answers]

\* A detail with a confidence (in tenths), and one without.
Detail(confidence) ==
    [section |-> "s", confidence |-> confidence, annotator |-> "LLM"]

HumanDetail == [section |-> "s", annotator |-> "human"]

\* The ThemeMap holding the details d of the (theme, code) pairs tags, and an
\* empty CodeMap for each theme of empty.
ThemeMap(tags, d, empty) ==
    [theme \in {p[1] : p \in tags} \cup empty |->
        [code \in {p[2] : p \in {q \in tags : q[1] = theme}} |-> d[<<theme, code>>]]]

\* Every ThemeMap with at most n items, an item being one of the given
\* (theme, code) pairs with one of the details, or one of their themes
\* without codes.
ThemeMaps(pairs, details, n) ==
    UNION {UNION {{ThemeMap(tags, d, empty) : d \in [tags -> details]} :
                     empty \in {e \in SUBSET ({p[1] : p \in pairs} \ {p[1] : p \in tags}) :
                                   Cardinality(tags) + Cardinality(e) <= n}} :
              tags \in {t \in SUBSET pairs : Cardinality(t) <= n}}

\* The sequences of at most n distinct ids, in any order.
IdSeqs(n) ==
    UNION {{s \in [1..k -> 1..MaxId] : \A i, j \in 1..k : s[i] = s[j] => i = j} :
              k \in 0..n}

\* Those in increasing order.
SortedIdSeqs(n) == {s \in IdSeqs(n) : \A i, j \in 1..Len(s) : i < j => s[i] < s[j]}

\* The answer lists with the ids of one of the id sequences and entries built
\* by make from the choices.
Answers(idseqs, choices, make(_, _)) ==
    UNION {{[i \in 1..Len(ids) |-> make(ids[i], c[i])] :
               c \in [1..Len(ids) -> choices]} : ids \in idseqs}

\* The scenario of the specification: auto tags (ThemeA, Code1) with confidence
\* 0.9; GT has (ThemeA, Code1) with 0.9 and (ThemeA, Code2) with 1.0.
ScenarioAuto == [ThemeA |-> [Code1 |-> Detail(9)]]

ScenarioGt == [ThemeA |-> [Code1 |-> Detail(9), Code2 |-> Detail(10)]]

\* An annotation with a theme the GT entries do not use.
OtherAuto == [ThemeB |-> [Code1 |-> Detail(9)]]

\* Auto entries: the GT text, the GT text up to whitespace, another text.
AutoChoices ==
    {<<<<"x">>, ScenarioAuto>>, <<<<" ", "x", "\n">>, ScenarioAuto>>, <<<<"y">>, OtherAuto>>}

AutoEntryA(id, c) == Entry(id, c[1], c[2])

GtEntryA(id, c) == Entry(id, c, ScenarioGt)

\* Alignment inputs: the ids, the order of the auto entries, the texts and the
\* questions vary.
AlignInputs ==
    {<<Document(q, a), Document("Q1", g)>> :
        q \in {"Q1", "Q2"},
        a \in Answers(IdSeqs(MaxAnswers), AutoChoices, AutoEntryA),
        g \in Answers(SortedIdSeqs(MaxAnswers), {<<"x">>}, GtEntryA)}

Themes == {"ThemeA", "ThemeB"}

Codes == {"Code1", "Code2"}

\* The codebook: the codes of each theme.
Codebook == {<<"ThemeA", "Code1">>, <<"ThemeA", "Code2">>, <<"ThemeB", "Code1">>}

Details == {Detail(DefaultMinConfidence), HumanDetail}

\* One aligned pair whose two annotation structures vary (absent included).
DeepInputs ==
    LET anns == ThemeMaps(Codebook, Details, MaxTags)
        entries == {Entry(1, <<"x">>, ann) : ann \in anns} \cup {BareEntry(1, <<"x">>)}
    IN {<<Document("Q1", <<a>>), Document("Q1", <<g>>)>> : a \in entries, g \in entries}

\* Up to MaxPairs aligned pairs with at most one code per entry.
WideInputs ==
    LET anns == {EmptyDict} \cup {[t \in {theme} |-> [Code1 |-> Detail(DefaultMinConfidence)]] :
                                     theme \in Themes}
        docs == UNION {{Document("Q1", [i \in 1..n |-> Entry(i, <<"x">>, c[i])]) :
                           c \in [1..n -> anns]} : n \in 1..MaxPairs}
    IN {<<a, g>> \in docs \X docs : Len(a["answers"]) = Len(g["answers"])}

\* One aligned pair whose theme and code names contain the separator.
SeparatorInputs ==
    LET anns == ThemeMaps({"a", "a|b"} \X {"c", "b|c"}, {HumanDetail}, MaxTags)
        entries == {Entry(1, <<"x">>, ann) : ann \in anns}
    IN {<<Document("Q1", <<a>>), Document("Q1", <<g>>)>> : a \in entries, g \in entries}

Inputs == AlignInputs \cup DeepInputs \cup WideInputs \cup SeparatorInputs

\* A document without some of its fields.
Without(doc, fields) == [k \in DOMAIN doc \ fields |-> doc[k]]

\* Pairs of documents of which at least one lacks "question" or "answers".
MalformedInputs ==
    {<<Without(input[1], f[1]), Without(input[2], f[2])>> :
        input \in AlignInputs,
        f \in {g \in (SUBSET {"question", "answers"}) \X (SUBSET {"question", "answers"}) :
                  g[1] \cup g[2] # {}}}

\* Construction inputs: malformed and well-formed pairs.
ConstructInputs == MalformedInputs \cup AlignInputs

\* Inputs of concurrent runs.
ConcurrentInputs == WideInputs \cup SeparatorInputs

\* Inputs of repeated calls.
RepeatInputs == WideInputs \cup SeparatorInputs \cup DeepInputs

\* The (theme, code) pairs of a document.
DocTags(doc) ==
    LET answers == Get(doc, "answers", <<>>) IN
    UNION {CodeItems(Get(answers[i], "annotations", EmptyDict)) : i \in 1..Len(answers)}

\* Those of the two documents that share their key with another one.
Colliding(input) ==
    LET tags == DocTags(input[1]) \cup DocTags(input[2]) IN
    {p \in tags : \E q \in tags : q # p /\ Key(p[1], p[2]) = Key(q[1], q[2])}

\* The orders in which a process can iterate the elements of S.
Orders(S) ==
    {s \in [1..Cardinality(S) -> S] : \A i, j \in 1..Cardinality(S) : s[i] = s[j] => i = j}

\* The thresholds evaluate_precision_recall is called with: the default 0.5,
\* the 0.7 of the main block, and 1.1 (above every confidence).
Thresholds == {DefaultMinConfidence, MainMinConfidence, DefaultConfidence + 1}

(***************************************************************************)
(* State                                                                   *)
(***************************************************************************)
VARIABLES
    pc,                \* "loaded", "ready" (constructed), "loop" (inside evaluate),
                       \* "failed" (the constructor raised)
    auto_data,         \* self.auto_data
    gt_data,           \* self.gt_data
    aligned_entries,   \* self.aligned_entries
    missing_count,     \* the local missing_count of _align_entries at its return
    stdout,            \* the lines printed so far
    calls,             \* number of completed evaluate_precision_recall calls
    min_confidence,    \* the argument of the current call
    idx,               \* number of aligned pairs the loop of the call has done
    auto_codes,        \* locals of the last loop iteration
    gt_codes,
    tps,
    fps,
    fns,
    tp_global,
    fp_global,
    fn_global,
    per_theme_counts,
    per_code_counts,
    per_code_order,    \* insertion order of per_code_counts, in batches
    results,           \* the local results of the call: the report it returned
    hash_order,        \* the order in which this process iterates the tags of
                       \* the documents whose keys coincide (it depends on the
                       \* hash seed of the process; the order of the other tags
                       \* does not show in a report)
    first_reports,     \* the caller's copy of the first report returned for
                       \* each threshold
    copies,            \* concurrent runs: the aligned_entries of the Evaluator
                       \* each run has constructed from the input files
    runs,              \* concurrent runs: position, threshold and report of each
    counters,          \* concurrent runs: the accumulators, by the place they
                       \* are stored at
    pipelines,         \* pipelines: the instances, in the order of their creation
    input_data,        \* pipelines: the content of the input file
    cache_exists,      \* pipelines: whether .ta_pipeline_cache.json exists
    cache,             \* pipelines: its content, by (input file, model, pipeline)
    files,             \* pipelines: the output files, content by path
    clock,             \* pipelines: the time of the cache entries
    last               \* pipelines: the result of the last call of a method

data == <<auto_data, gt_data>>

aligned == <<aligned_entries, missing_count, stdout>>

locals == <<auto_codes, gt_codes, tps, fps, fns>>

accumulators ==
    <<tp_global, fp_global, fn_global, per_theme_counts, per_code_counts, per_code_order>>

\* What no step of the Evaluator changes.
concurrent == <<copies, runs, counters>>

pipeline == <<pipelines, input_data, cache_exists, cache, files, clock, last>>

others == <<hash_order, concurrent, pipeline>>

\* The state of the single Evaluator.
evaluator ==
    <<pc, data, aligned, calls, min_confidence, idx, locals, accumulators, results,
      first_reports>>

vars == <<evaluator, hash_order, concurrent, pipeline>>

\* The two documents are loaded (Evaluator.__init__ up to the json.load
\* calls); nothing is aligned or evaluated yet.
InitWith(inputs) ==
    /\ \E input \in inputs :
          /\ auto_data = input[1] /\ gt_data = input[2]
          /\ hash_order \in Orders(Colliding(input))
    /\ first_reports = EmptyDict
    /\ pc = "loaded"
    /\ aligned_entries = <<>>
    /\ missing_count = 0
    /\ stdout = <<>>
    /\ calls = 0
    /\ min_confidence = DefaultMinConfidence
    /\ idx = 0
    /\ auto_codes = {} /\ gt_codes = {} /\ tps = {} /\ fps = {} /\ fns = {}
    /\ tp_global = 0 /\ fp_global = 0 /\ fn_global = 0
    /\ per_theme_counts = EmptyDict
    /\ per_code_counts = EmptyDict
    /\ per_code_order = <<>>
    /\ results = EmptyDict

\* No concurrent runs.
NoRuns == copies = EmptyDict /\ runs = EmptyDict /\ counters = EmptyDict

\* The result of the last call of a method, as its caller sees it.
NoCall ==
    [op |-> "none", instance |-> 0, raised |-> FALSE, returned |-> "", hit |-> FALSE,
     not_found |-> FALSE, llm_calls |-> 0, result |-> <<>>, given |-> <<>>]

Call(op, i) == [NoCall EXCEPT !.op = op, !.instance = i]

\* No pipeline exists.
NoPipelines ==
    /\ pipelines = <<>>
    /\ input_data = EmptyDict
    /\ cache_exists = FALSE
    /\ cache = EmptyDict
    /\ files = EmptyDict
    /\ clock = 0
    /\ last = NoCall

Init == InitWith(Inputs) /\ NoRuns /\ NoPipelines

\* The same with documents that may lack fields.
InitConstruct == InitWith(ConstructInputs) /\ NoRuns /\ NoPipelines

InitRepeat == InitWith(RepeatInputs) /\ NoRuns /\ NoPipelines

(***************************************************************************)
(* Actions                                                                 *)
(***************************************************************************)
\* self.aligned_entries = self._align_entries(), or the KeyError it raises.
AlignEntries ==
    /\ pc = "loaded"
    /\ LET r == Construct(auto_data, gt_data) IN
          /\ aligned_entries' = r.aligned_pairs
          /\ missing_count' = r.missing_count
          /\ stdout' = stdout \o r.out
          /\ pc' = r.pc
    /\ UNCHANGED <<data, calls, min_confidence, idx, locals, accumulators, results>>
    /\ UNCHANGED <<first_reports, others>>

\* EvaluateBegin with tp_global left as the previous call left it.
EvaluateBegin_Stale(t) ==
    /\ pc = "ready"
    /\ calls < MaxCalls
    /\ min_confidence' = t
    /\ idx' = 0
    /\ auto_codes' = {} /\ gt_codes' = {} /\ tps' = {} /\ fps' = {} /\ fns' = {}
    /\ fp_global' = 0 /\ fn_global' = 0
    /\ per_theme_counts' = EmptyDict
    /\ per_code_counts' = EmptyDict
    /\ per_code_order' = <<>>
    /\ results' = EmptyDict
    /\ pc' = "loop"
    /\ UNCHANGED <<data, aligned, calls, first_reports, others, tp_global>>

\* evaluate_precision_recall(t) is entered: fresh accumulators.
EvaluateBegin(t) ==
    /\ pc = "ready"
    /\ calls < MaxCalls
    /\ min_confidence' = t
    /\ idx' = 0
    /\ auto_codes' = {} /\ gt_codes' = {} /\ tps' = {} /\ fps' = {} /\ fns' = {}
    /\ tp_global' = 0 /\ fp_global' = 0 /\ fn_global' = 0
    /\ per_theme_counts' = EmptyDict
    /\ per_code_counts' = EmptyDict
    /\ per_code_order' = <<>>
    /\ results' = EmptyDict
    /\ pc' = "loop"
    /\ UNCHANGED <<data, aligned, calls, first_reports, others>>

\* One iteration of "for auto_entry, gt_entry in self.aligned_entries".
EvaluatePair ==
    /\ pc = "loop"
    /\ idx < Len(aligned_entries)
    /\ LET sets == PairSets(aligned_entries[idx + 1][1], aligned_entries[idx + 1][2],
                            min_confidence)
           t == sets.tps
           f == sets.fps
           n == sets.fns
           known == DOMAIN per_code_counts
       IN /\ auto_codes' = sets.auto_codes /\ gt_codes' = sets.gt_codes
          /\ tps' = t /\ fps' = f /\ fns' = n
          /\ tp_global' = tp_global + Cardinality(t)
          /\ fp_global' = fp_global + Cardinality(f)
          /\ fn_global' = fn_global + Cardinality(n)
          /\ per_theme_counts' =
                BumpTheme(BumpTheme(BumpTheme(per_theme_counts, t, "tp"), f, "fp"), n, "fn")
          /\ per_code_counts' =
                BumpCode(BumpCode(BumpCode(per_code_counts, t, "tp"), f, "fp"), n, "fn")
          /\ per_code_order' =
                AddBatch(AddBatch(AddBatch(per_code_order, known, t),
                                  known \cup t, f),
                         known \cup t \cup f, n)
    /\ idx' = idx + 1
    /\ UNCHANGED <<pc, data, aligned, calls, min_confidence, results, first_reports, others>>

\* The loop is over: the report is built and returned.
ReturnReport ==
    /\ pc = "loop"
    /\ idx = Len(aligned_entries)
    /\ results' =
          [global |-> GlobalReport(tp_global, fp_global, fn_global, Len(aligned_entries)),
           per_theme |-> PerThemeReport(per_theme_counts),
           per_code |-> PerCodeReport(per_code_counts, per_code_order, hash_order)]
    /\ calls' = calls + 1
    /\ pc' = "ready"
    /\ UNCHANGED <<data, aligned, min_confidence, idx, locals, accumulators, others>>

EvaluateReturn == ReturnReport /\ UNCHANGED first_reports

\* The same, the caller keeping the report if it is the first one returned
\* for its threshold.
EvaluateReturnKept ==
    /\ ReturnReport
    /\ first_reports' =
          IF min_confidence \in DOMAIN first_reports THEN first_reports
          ELSE first_reports @@ (min_confidence :> results')

Next ==
    \/ AlignEntries
    \/ \E t \in Thresholds : EvaluateBegin(t)
    \/ EvaluatePair
    \/ EvaluateReturn

Spec == Init /\ [][Next]_vars

SpecConstruct == InitConstruct /\ [][Next]_vars

NextRepeat ==
    \/ AlignEntries
    \/ \E t \in Thresholds : EvaluateBegin(t)
    \/ EvaluatePair
    \/ EvaluateReturnKept

SpecRepeat == InitRepeat /\ [][NextRepeat]_vars

(***************************************************************************)
(* Two concurrent evaluation runs                                          *)
(***************************************************************************)
\* The two runs.
Runs == {"A", "B"}

\* tp_global, fp_global, fn_global = 0, 0, 0 and the two empty defaultdicts.
FreshCounters ==
    [tp_global |-> 0, fp_global |-> 0, fn_global |-> 0,
     per_theme_counts |-> EmptyDict, per_code_counts |-> EmptyDict, per_code_order |-> <<>>]

\* One iteration of the loop over the aligned pairs, on the accumulators c.
Accumulate(c, pair, t) ==
    LET sets == PairSets(pair[1], pair[2], t)
        known == DOMAIN c.per_code_counts
    IN [tp_global |-> c.tp_global + Cardinality(sets.tps),
        fp_global |-> c.fp_global + Cardinality(sets.fps),
        fn_global |-> c.fn_global + Cardinality(sets.fns),
        per_theme_counts |->
            BumpTheme(BumpTheme(BumpTheme(c.per_theme_counts, sets.tps, "tp"),
                                sets.fps, "fp"), sets.fns, "fn"),
        per_code_counts |->
            BumpCode(BumpCode(BumpCode(c.per_code_counts, sets.tps, "tp"),
                              sets.fps, "fp"), sets.fns, "fn"),
        per_code_order |->
            AddBatch(AddBatch(AddBatch(c.per_code_order, known, sets.tps),
                              known \cup sets.tps, sets.fps),
                     known \cup sets.tps \cup sets.fps, sets.fns)]

\* The report built from the accumulators c after n evaluated entries.
Report(c, n, iteration) ==
    [global |-> GlobalReport(c.tp_global, c.fp_global, c.fn_global, n),
     per_theme |-> PerThemeReport(c.per_theme_counts),
     per_code |-> PerCodeReport(c.per_code_counts, c.per_code_order, iteration)]

\* All runs keep their accumulators at one place.
CountersOf_Shared(r) == "A"

\* Where run r keeps its accumulators: they are locals of its own call.
CountersOf(r) == r

\* Each run has constructed its own Evaluator from the input files.
InitConcurrent ==
    /\ InitWith(ConcurrentInputs)
    /\ NoPipelines
    /\ copies = [r \in Runs |-> Construct(auto_data, gt_data).aligned_pairs]
    /\ runs = [r \in Runs |-> [pc |-> "ready", min_confidence |-> DefaultMinConfidence,
                               idx |-> 0, results |-> EmptyDict]]
    /\ counters = [r \in Runs |-> FreshCounters]

\* Run r enters evaluate_precision_recall(t).
RunBegin(r, t) ==
    /\ runs[r].pc = "ready"
    /\ runs' = [runs EXCEPT ![r].pc = "loop", ![r].min_confidence = t]
    /\ counters' = [counters EXCEPT ![CountersOf(r)] = FreshCounters]
    /\ UNCHANGED <<evaluator, hash_order, copies, pipeline>>

\* Run r does one iteration of its loop.
RunPair(r) ==
    /\ runs[r].pc = "loop"
    /\ runs[r].idx < Len(copies[r])
    /\ counters' =
          [counters EXCEPT ![CountersOf(r)] =
              Accumulate(@, copies[r][runs[r].idx + 1], runs[r].min_confidence)]
    /\ runs' = [runs EXCEPT ![r].idx = @ + 1]
    /\ UNCHANGED <<evaluator, hash_order, copies, pipeline>>

\* Run r builds and returns its report.
RunReturn(r) ==
    /\ runs[r].pc = "loop"
    /\ runs[r].idx = Len(copies[r])
    /\ runs' = [runs EXCEPT ![r].pc = "done",
                            ![r].results =
                                Report(counters[CountersOf(r)], Len(copies[r]), hash_order)]
    /\ UNCHANGED <<evaluator, hash_order, copies, counters, pipeline>>

NextConcurrent ==
    \/ \E r \in Runs, t \in Thresholds : RunBegin(r, t)
    \/ \E r \in Runs : RunPair(r)
    \/ \E r \in Runs : RunReturn(r)

SpecConcurrent == InitConcurrent /\ [][NextConcurrent]_vars

(***************************************************************************)
(* The annotation pipelines: JSON values, names, paths                     *)
(***************************************************************************)
\* JSON values of the pipelines: an object is a function of its keys; a
\* string, a number and an array carry their type in the field "json".
JStr(s) == [json |-> "string", value |-> s]

JNum(n) == [json |-> "number", value |-> n]

JArray == [json |-> "array"]

\* isinstance(v, dict), isinstance(v, str), isinstance(v, (int, float))
IsDict(v) == "json" \notin DOMAIN v

IsStr(v) == ~IsDict(v) /\ v.json = "string"

IsNum(v) == ~IsDict(v) /\ v.json = "number"

\* The details of one code, confidence in tenths.
PDetail(section, confidence, annotator) ==
    [section |-> JStr(section), confidence |-> JNum(confidence), annotator |-> JStr(annotator)]

\* AbstractTAPipeline.validate_annotation_structure
validate_annotation_structure(annotations) ==
    /\ IsDict(annotations)
    /\ \A theme \in DOMAIN annotations :
          /\ IsDict(annotations[theme])
          /\ \A code \in DOMAIN annotations[theme] :
                LET details == annotations[theme][code] IN
                /\ IsDict(details)
                /\ {"section", "confidence", "annotator"} \subseteq DOMAIN details
                /\ IsStr(details["section"])
                /\ IsNum(details["confidence"])
                /\ IsStr(details["annotator"])

\* AbstractTAPipeline.validate_output: TRUE when it returns, FALSE when it
\* raises ValueError.
validate_output(entry) == "annotations" \in DOMAIN entry

\* The three concrete pipeline classes.
PipelineClasses == {"SimplePromptPipeline", "BetterPromptPipeline", "FewShotPipeline"}

\* The classes that define __str__.
ImplementsStr(class) == class \in {"BetterPromptPipeline", "FewShotPipeline"}

\* str(self), a text in pieces: the __str__ of the class, or that of
\* object, which names the module, the class and the address of the
\* instance.
Str(class, address) ==
    IF ImplementsStr(class) THEN <<class>>
    ELSE <<"<src.pipelines.", class, ".", class, " object at ", ToString(address), ">">>

\* AbstractTAPipeline._get_pipeline_name (str(self) does not raise for these
\* classes).
_get_pipeline_name(class, address) ==
    LET name == Str(class, address) IN
    IF Strip(name) = <<>> THEN <<class>> ELSE name

\* The input path, split as os.path does.
InputPath == [dir |-> "data", base |-> "test", ext |-> ".json"]

\* os.path.basename(self.input_path)
Basename(path) == path.base \o path.ext

\* output_name of the constructors: None, or the default of FewShotPipeline.
OutputName(class) == IF class = "FewShotPipeline" THEN "partial_few_shot" ELSE ""

\* AbstractTAPipeline._make_output_path with output_dir None.
_make_output_path(input_path, output_name) ==
    LET annotated_name ==
            IF output_name # ""
            THEN input_path.base \o "_" \o output_name \o "_annotated" \o input_path.ext
            ELSE input_path.base \o "_annotated" \o input_path.ext
    IN input_path.dir \o "/" \o annotated_name

\* The name of the model of the LLM.
ModelName == "m"

\* The key of the cache entry of a pipeline: cache[input_file][model_name][pipeline_name].
CacheKey(class, address) ==
    <<Basename(InputPath), ModelName, _get_pipeline_name(class, address)>>

(***************************************************************************)
(* The LLM and clean_and_parse_json                                        *)
(***************************************************************************)
\* A response of the LLM is a text in pieces: a markdown fence, whitespace,
\* prose without braces, or a JSON document.
Fence == [piece |-> "fence"]

Space == [piece |-> "space"]

Prose == [piece |-> "prose"]

Json(v) == [piece |-> "json", value |-> v]

\* response.strip(), and the like for the pieces in drop.
RECURSIVE TrimLeft(_, _)
TrimLeft(r, drop) ==
    IF r # <<>> /\ Head(r) \in drop THEN TrimLeft(Tail(r), drop) ELSE r

RECURSIVE TrimRight(_, _)
TrimRight(r, drop) ==
    IF r # <<>> /\ r[Len(r)] \in drop THEN TrimRight(SubSeq(r, 1, Len(r) - 1), drop) ELSE r

\* The two re.sub calls: a leading fence with the whitespace after it and a
\* trailing fence with the whitespace before it are removed.
Unfence(r) ==
    LET a == IF r # <<>> /\ Head(r) = Fence THEN TrimLeft(Tail(r), {Space}) ELSE r
    IN IF a # <<>> /\ a[Len(a)] = Fence
       THEN TrimRight(SubSeq(a, 1, Len(a) - 1), {Space}) ELSE a

\* json.loads of a text: it is one JSON document, whitespace around it allowed.
Loads(r) ==
    LET t == TrimRight(TrimLeft(r, {Space}), {Space}) IN
    IF Len(t) = 1 /\ t[1].piece = "json"
    THEN [ok |-> TRUE, value |-> t[1].value]
    ELSE [ok |-> FALSE, value |-> EmptyDict]

\* re.search(r"\{.*\}", response, DOTALL): from the first brace to the last
\* one, the braces being those of the JSON objects of the text.
BraceSpan(r) ==
    LET objs == {i \in 1..Len(r) : r[i].piece = "json" /\ IsDict(r[i].value)} IN
    IF objs = {} THEN <<>>
    ELSE SubSeq(r, CHOOSE i \in objs : \A j \in objs : i <= j,
                   CHOOSE i \in objs : \A j \in objs : j <= i)

\* AbstractLLM.clean_and_parse_json: ok is FALSE when it raises.
clean_and_parse_json(response) ==
    LET cleaned == Unfence(TrimRight(TrimLeft(response, {Space}), {Space}))
        whole == Loads(cleaned)
    IN IF whole.ok THEN whole ELSE Loads(BraceSpan(cleaned))

(***************************************************************************)
(* annotate_entry                                                          *)
(***************************************************************************)
\* The annotation given to a blank text.
BlankAnnotation(annotator) ==
    "No Responses" :> ("Blank" :> PDetail("", 10, annotator))

\* The annotation given when the response cannot be used.
ErrorAnnotation(code, annotator) ==
    "Error" :> (code :> PDetail("", 0, annotator))

\* entry["annotations"] = annotations
SetAnnotations(entry, annotations) ==
    [k \in DOMAIN entry \cup {"annotations"} |->
        IF k = "annotations" THEN annotations ELSE entry[k]]

\* self.data = None
None == [json |-> "null"]

\* entry_map = {entry['id']: entry for entry in self.data['answers']}
EntryMap(answers) == GtMap(answers)

\* FewShotPipeline._build_examples_context on loaded data: the examples the
\* prompt shows, the empty sequence standing for the empty string.
_build_examples_context(self) ==
    LET entry_map == EntryMap(self.data["answers"])
        valid(ex_id) ==
            /\ ex_id \in DOMAIN entry_map
            /\ DOMAIN Get(entry_map[ex_id], "annotations", EmptyDict) # {}
    IN SelectSeq(self.example_ids, valid)

\* What annotate_entry does with the response of the LLM (SimplePromptPipeline
\* and BetterPromptPipeline, lines "try:" to "return entry").
ParseResponse(entry, response) ==
    LET parsed == clean_and_parse_json(response) IN
    IF ~parsed.ok \/ ~IsDict(parsed.value)
    THEN SetAnnotations(entry, ErrorAnnotation("InvalidJSON", ModelName))
    ELSE LET annotation == Get(parsed.value, "annotations", EmptyDict) IN
         IF validate_annotation_structure(annotation)
         THEN SetAnnotations(entry, annotation)
         ELSE SetAnnotations(entry, ErrorAnnotation("InvalidFormat", ModelName))

\* annotate_entry of the class of self, called with the log file open and the
\* data loaded; outcome is what self.llm.generate does when it is called.
\* The result tells whether the call raised, the entry it returned, the
\* number of calls of the LLM and self.examples_context afterwards.
\* FewShotPipeline.annotate_entry calls self._format_codebook(), which only
\* BetterPromptPipeline defines: for a text that is not blank it raises
\* AttributeError before it builds the prompt.
annotate_entry(self, entry, outcome) ==
    LET text == Strip(Get(entry, "text", <<>>))
        done(e, n) == [raised |-> FALSE, entry |-> e, llm_calls |-> n,
                       examples_context |-> self.examples_context]
    IN IF self.class = "FewShotPipeline"
       THEN IF text = <<>>
            THEN done(SetAnnotations(entry, BlankAnnotation("human")), 0)
            ELSE [raised |-> TRUE, entry |-> entry, llm_calls |-> 0,
                  examples_context |->
                      IF self.examples_context = <<>>
                      THEN _build_examples_context(self)
                      ELSE self.examples_context]
       ELSE IF text = <<>>
            THEN done(SetAnnotations(entry, BlankAnnotation(ModelName)), 0)
            ELSE IF outcome.raised
                 THEN [raised |-> TRUE, entry |-> entry, llm_calls |-> 1,
                       examples_context |-> self.examples_context]
                 ELSE done(ParseResponse(entry, outcome.response), 1)

\* The loop of AbstractTAPipeline.run over the entries from the k-th on: each
\* entry is annotated and validated; a raise ends the loop.
RECURSIVE AnnotateAll(_, _, _, _, _)
AnnotateAll(self, entries, outcomes, k, llm_calls) ==
    IF k > Len(entries)
    THEN [raised |-> FALSE, entries |-> entries, llm_calls |-> llm_calls,
          examples_context |-> self.examples_context]
    ELSE LET r == annotate_entry(self, entries[k], outcomes[k]) IN
         IF r.raised \/ ~validate_output(r.entry)
         THEN [raised |-> TRUE, entries |-> entries, llm_calls |-> llm_calls + r.llm_calls,
               examples_context |-> r.examples_context]
         ELSE AnnotateAll([self EXCEPT !.examples_context = r.examples_context],
                          [entries EXCEPT ![k] = r.entry], outcomes, k + 1,
                          llm_calls + r.llm_calls)

(***************************************************************************)
(* The pipelines: inputs, LLM responses, instances                         *)
(***************************************************************************)
\* The annotation a well-behaved LLM returns.
ValidAnnotation == [ThemeA |-> [Code1 |-> PDetail("s", 9, ModelName)]]

\* A human annotation of an example entry.
HumanAnnotation == [ThemeA |-> [Code1 |-> PDetail("s", 10, "human")]]

\* Annotations of the wrong shape: a key missing from the details, codes
\* that are not an object, a confidence that is not a number.
WrongShapes ==
    {[ThemeA |-> [Code1 |-> [section |-> JStr("s"), annotator |-> JStr(ModelName)]]],
     [ThemeA |-> JStr("Code1")],
     [ThemeA |-> [Code1 |-> [section |-> JStr("s"), confidence |-> JStr("high"),
                             annotator |-> JStr(ModelName)]]],
     JArray}

\* Responses with a structurally valid annotation: bare, fenced, in prose.
ValidResponses ==
    {<<Json([annotations |-> ValidAnnotation])>>,
     <<Fence, Space, Json([annotations |-> ValidAnnotation]), Space, Fence>>,
     <<Space, Prose, Json([annotations |-> ValidAnnotation]), Prose>>}

\* Well-formed JSON of the wrong shape.
WrongShapeResponses ==
    {<<Json([annotations |-> w])>> : w \in WrongShapes} \cup {<<Json(JArray)>>}

\* Texts that are not JSON.
UnparseableResponses ==
    {<<Prose>>, <<>>, <<Json([annotations |-> ValidAnnotation]), Prose,
                        Json([annotations |-> ValidAnnotation])>>}

\* An object without the key "annotations".
OtherResponses == {<<Json([note |-> JStr("n")])>>}

Responses ==
    ValidResponses \cup WrongShapeResponses \cup UnparseableResponses \cup OtherResponses

\* What self.llm.generate does: it raises, or it returns a response.
Raises == [raised |-> TRUE, response |-> <<>>]

Responds(response) == [raised |-> FALSE, response |-> response]

LLMOutcomes == {Raises} \cup {Responds(r) : r \in Responses}

\* The outcomes drawn for the entries of a whole run.
RunOutcomes ==
    {Raises, Responds(<<Json([annotations |-> ValidAnnotation])>>), Responds(<<Prose>>)}

\* The input file: entries with the ids 1..n, the first one a human-annotated
\* example; each text is blank or not.
PipelineInputs ==
    UNION {{[question |-> "Q1", themes |-> [ThemeA |-> JArray],
             answers |-> [i \in 1..n |->
                            IF i = 1 THEN Entry(1, text[i], HumanAnnotation)
                            ELSE BareEntry(i, text[i])]] :
               text \in [1..n -> {<<" ">>, <<"x">>}]} : n \in 1..MaxEntries}

\* A pipeline as its constructor leaves it.  address tells the instances
\* apart: no two live objects share one.
NewPipeline(class, address, use_cache, example_ids) ==
    [class |-> class, address |-> address, use_cache |-> use_cache,
     output_path |-> _make_output_path(InputPath, OutputName(class)),
     data |-> None, log_open |-> TRUE,
     example_ids |-> example_ids, examples_context |-> <<>>,
     calls |-> 0,       \* the calls of run_single and run_multiple made on it
     returned |-> ""]   \* the path its run() returned to its caller, if it did

(***************************************************************************)
(* The pipelines: state and methods                                        *)
(***************************************************************************)
\* No Evaluator is at work.
NoEvaluator ==
    InitWith({<<Document("Q1", <<>>), Document("Q1", <<>>)>>}) /\ NoRuns

\* The input file is there; the cache file and the output files are not.
InitFiles ==
    /\ input_data \in PipelineInputs
    /\ cache_exists = FALSE
    /\ cache = EmptyDict
    /\ files = EmptyDict
    /\ clock = 0
    /\ last = NoCall

\* Two pipelines of any classes have been constructed on the input file.
InitPipeline ==
    /\ NoEvaluator
    /\ InitFiles
    /\ \E c1, c2 \in PipelineClasses, u1, u2 \in BOOLEAN :
          pipelines = <<NewPipeline(c1, 1, u1, <<1>>), NewPipeline(c2, 2, u2, <<1>>)>>

\* What self.data is when the loop of run() has raised: the loop works on a
\* deep copy, self.data is the loaded document.
DataAfterRaise_NoCopy(loaded, annotated) == annotated

DataAfterRaise(loaded, annotated) == loaded

\* run() of pipeline i (the run of the concrete class around
\* AbstractTAPipeline.run).
Run(i) ==
    /\ i \in DOMAIN pipelines
    /\ LET self == pipelines[i]
           key == CacheKey(self.class, self.address)
           hit == /\ self.use_cache
                  /\ key \in DOMAIN cache
                  /\ cache[key].output_path \in DOMAIN files
       IN IF ~self.log_open
          THEN \* self.log writes to the closed log file: ValueError
               /\ last' = [Call("run", i) EXCEPT !.raised = TRUE]
               /\ UNCHANGED <<pipelines, cache_exists, cache, files, clock>>
          ELSE IF hit
          THEN /\ last' = [Call("run", i) EXCEPT !.returned = cache[key].output_path,
                                                 !.hit = TRUE]
               /\ pipelines' = [pipelines EXCEPT ![i].log_open = FALSE,
                                                 ![i].returned = cache[key].output_path]
               /\ UNCHANGED <<cache_exists, cache, files, clock>>
          ELSE \E outcomes \in [1..Len(input_data["answers"]) -> RunOutcomes] :
                  LET r == AnnotateAll([self EXCEPT !.data = input_data],
                                       input_data["answers"], outcomes, 1, 0)
                      annotated == [input_data EXCEPT !["answers"] = r.entries]
                  IN IF r.raised
                     THEN /\ pipelines' =
                                [pipelines EXCEPT
                                    ![i].data = DataAfterRaise(input_data, annotated),
                                    ![i].examples_context = r.examples_context,
                                    ![i].log_open = FALSE]
                          /\ cache_exists' = (cache_exists \/ self.use_cache)
                          /\ last' = [Call("run", i) EXCEPT !.raised = TRUE,
                                                            !.llm_calls = r.llm_calls]
                          /\ UNCHANGED <<cache, files, clock>>
                     ELSE /\ pipelines' =
                                [pipelines EXCEPT
                                    ![i].data = annotated,
                                    ![i].examples_context = r.examples_context,
                                    ![i].log_open = FALSE,
                                    ![i].returned = self.output_path]
                          /\ files' = (self.output_path :> annotated) @@ files
                          /\ cache' = (key :> [output_path |-> self.output_path,
                                               timestamp |-> clock + 1]) @@ cache
                          /\ cache_exists' = TRUE
                          /\ clock' = clock + 1
                          /\ last' = [Call("run", i) EXCEPT !.returned = self.output_path,
                                                            !.llm_calls = r.llm_calls]
    /\ UNCHANGED <<evaluator, hash_order, concurrent, input_data>>

\* Somebody removes an output file.
DeleteOutput(path) ==
    /\ path \in DOMAIN files
    /\ files' = [p \in DOMAIN files \ {path} |-> files[p]]
    /\ UNCHANGED <<evaluator, hash_order, concurrent>>
    /\ UNCHANGED <<pipelines, input_data, cache_exists, cache, clock, last>>

NextPipeline ==
    \/ \E i \in DOMAIN pipelines : Run(i)
    \/ \E path \in DOMAIN files : DeleteOutput(path)

SpecPipeline == InitPipeline /\ [][NextPipeline]_vars

(***************************************************************************)
(* FewShotPipeline.run_single and run_multiple; annotate_entry called alone *)
(***************************************************************************)
\* The ids a caller asks for: those of the input file can have, and one more.
TargetIds == 1..(MaxEntries + 1)

\* The lists of at most two distinct target ids.
TargetLists ==
    {<<>>} \cup {<<a>> : a \in TargetIds}
           \cup {<<p[1], p[2]>> : p \in {q \in TargetIds \X TargetIds : q[1] # q[2]}}

\* One FewShotPipeline has been constructed, with or without an example.
InitFewShot ==
    /\ NoEvaluator
    /\ InitFiles
    /\ \E example_ids \in {<<>>, <<1>>} :
          pipelines = <<NewPipeline("FewShotPipeline", 1, TRUE, example_ids)>>

\* One pipeline of any class has been constructed and has loaded its data.
InitAnnotate ==
    /\ NoEvaluator
    /\ InitFiles
    /\ \E class \in PipelineClasses :
          pipelines = <<[NewPipeline(class, 1, TRUE, <<1>>) EXCEPT !.data = input_data]>>

\* self.data once "if self.data is None: self.load_data()" is done.
Loaded(self) == IF self.data = None THEN input_data ELSE self.data

\* The entries of the example ids that entry_map holds, in the order of
\* example_ids.
ExampleEntries(self, entry_map) ==
    LET found == SelectSeq(self.example_ids, LAMBDA ex_id : ex_id \in DOMAIN entry_map)
    IN [k \in 1..Len(found) |-> entry_map[found[k]]]

\* run_single(target_id) of pipeline i.
RunSingle(i, target_id) ==
    /\ i \in DOMAIN pipelines
    /\ pipelines[i].class = "FewShotPipeline"
    /\ pipelines[i].calls < MaxCalls
    /\ LET self == pipelines[i]
           loaded == Loaded(self)
           answers == loaded["answers"]
           matches == {k \in 1..Len(answers) : answers[k]["id"] = target_id}
           call == [Call("run_single", i) EXCEPT !.given = <<target_id>>]
       IN IF ~self.log_open
          THEN /\ last' = [call EXCEPT !.raised = TRUE]
               /\ pipelines' = [pipelines EXCEPT ![i].calls = @ + 1]
               /\ UNCHANGED files
          ELSE IF matches = {}
          THEN /\ last' = [call EXCEPT !.not_found = TRUE]
               /\ pipelines' = [pipelines EXCEPT ![i].data = loaded, ![i].calls = @ + 1]
               /\ UNCHANGED files
          ELSE \E outcome \in RunOutcomes :
                  LET target_entry == answers[CHOOSE k \in matches : \A m \in matches : k <= m]
                      r == annotate_entry([self EXCEPT !.data = loaded], target_entry, outcome)
                      new_data ==
                          [loaded EXCEPT !["answers"] =
                              Append(ExampleEntries(self, EntryMap(answers)), r.entry)]
                  IN IF r.raised
                     THEN /\ last' = [call EXCEPT !.raised = TRUE, !.llm_calls = r.llm_calls]
                          /\ pipelines' =
                                [pipelines EXCEPT ![i].data = loaded,
                                                  ![i].examples_context = r.examples_context,
                                                  ![i].calls = @ + 1]
                          /\ UNCHANGED files
                     ELSE /\ last' = [call EXCEPT !.result = <<r.entry>>,
                                                  !.llm_calls = r.llm_calls]
                          /\ pipelines' =
                                [pipelines EXCEPT ![i].data = new_data,
                                                  ![i].examples_context = r.examples_context,
                                                  ![i].calls = @ + 1]
                          /\ files' = (self.output_path :> new_data) @@ files
    /\ UNCHANGED <<evaluator, hash_order, concurrent>>
    /\ UNCHANGED <<input_data, cache_exists, cache, clock>>

\* The loop of run_multiple from the k-th target id on: an id entry_map does
\* not hold is skipped, the others are annotated on a deep copy; a raise of
\* annotate_entry ends the loop.
RECURSIVE AnnotateTargets(_, _, _, _, _, _)
AnnotateTargets(self, entry_map, target_ids, outcome, k, done) ==
    IF k > Len(target_ids)
    THEN [raised |-> FALSE, entries |-> done, examples_context |-> self.examples_context]
    ELSE IF target_ids[k] \notin DOMAIN entry_map
    THEN AnnotateTargets(self, entry_map, target_ids, outcome, k + 1, done)
    ELSE LET r == annotate_entry(self, entry_map[target_ids[k]], outcome) IN
         IF r.raised
         THEN [raised |-> TRUE, entries |-> done, examples_context |-> r.examples_context]
         ELSE AnnotateTargets([self EXCEPT !.examples_context = r.examples_context],
                              entry_map, target_ids, outcome, k + 1, Append(done, r.entry))

\* run_multiple(target_ids) of pipeline i.  The loop that would add the
\* example entries to the saved answers is commented out in the code.
RunMultiple(i, target_ids) ==
    /\ i \in DOMAIN pipelines
    /\ pipelines[i].class = "FewShotPipeline"
    /\ pipelines[i].calls < MaxCalls
    /\ LET self == pipelines[i]
           loaded == Loaded(self)
           call == [Call("run_multiple", i) EXCEPT !.given = target_ids]
       IN IF ~self.log_open
          THEN /\ last' = [call EXCEPT !.raised = TRUE]
               /\ pipelines' = [pipelines EXCEPT ![i].calls = @ + 1]
               /\ UNCHANGED files
          ELSE \E outcome \in RunOutcomes :
                  LET r == AnnotateTargets([self EXCEPT !.data = loaded],
                                           EntryMap(loaded["answers"]), target_ids, outcome,
                                           1, <<>>)
                      new_data == [loaded EXCEPT !["answers"] = r.entries]
                  IN IF r.raised
                     THEN /\ last' = [call EXCEPT !.raised = TRUE]
                          /\ pipelines' =
                                [pipelines EXCEPT ![i].data = loaded,
                                                  ![i].examples_context = r.examples_context,
                                                  ![i].calls = @ + 1]
                          /\ UNCHANGED files
                     ELSE /\ last' = [call EXCEPT !.result = r.entries]
                          /\ pipelines' =
                                [pipelines EXCEPT ![i].data = new_data,
                                                  ![i].examples_context = r.examples_context,
                                                  ![i].calls = @ + 1]
                          /\ files' = (self.output_path :> new_data) @@ files
    /\ UNCHANGED <<evaluator, hash_order, concurrent>>
    /\ UNCHANGED <<input_data, cache_exists, cache, clock>>

NextFewShot ==
    \/ \E i \in DOMAIN pipelines, target_id \in TargetIds : RunSingle(i, target_id)
    \/ \E i \in DOMAIN pipelines, target_ids \in TargetLists : RunMultiple(i, target_ids)

SpecFewShot == InitFewShot /\ [][NextFewShot]_vars

\* annotate_entry of pipeline i is called on a copy of the k-th entry of its
\* data, the LLM doing outcome when it is called.
AnnotateEntry(i, k, outcome) ==
    /\ i \in DOMAIN pipelines
    /\ pipelines[i].log_open
    /\ pipelines[i].data # None
    /\ k \in 1..Len(pipelines[i].data["answers"])
    /\ LET r == annotate_entry(pipelines[i], pipelines[i].data["answers"][k], outcome) IN
          /\ last' = [Call("annotate_entry", i) EXCEPT
                         !.raised = r.raised,
                         !.llm_calls = r.llm_calls,
                         !.result = IF r.raised THEN <<>> ELSE <<r.entry>>,
                         !.given = <<[entry |-> pipelines[i].data["answers"][k],
                                      outcome |-> outcome]>>]
          /\ pipelines' = [pipelines EXCEPT ![i].examples_context = r.examples_context]
    /\ UNCHANGED <<evaluator, hash_order, concurrent>>
    /\ UNCHANGED <<input_data, cache_exists, cache, files, clock>>

NextAnnotate ==
    \E i \in DOMAIN pipelines, k \in 1..MaxEntries, outcome \in LLMOutcomes :
        AnnotateEntry(i, k, outcome)

SpecAnnotate == InitAnnotate /\ [][NextAnnotate]_vars

TypeOK ==
    /\ pc \in {"loaded", "ready", "loop", "failed"}
    /\ calls \in 0..MaxCalls
    /\ idx \in 0..Len(aligned_entries)

(***************************************************************************)
(* Properties                                                              *)
(***************************************************************************)
AutoAnswers == auto_data["answers"]

GtAnswers == gt_data["answers"]

GtIds == {GtAnswers[j]["id"] : j \in 1..Len(GtAnswers)}

\* The positions of the auto entries whose id occurs in GT, and of the others.
Matched == {i \in 1..Len(AutoAnswers) : AutoAnswers[i]["id"] \in GtIds}

Unmatched == (1..Len(AutoAnswers)) \ Matched

\* The GT entry with the given id (ids are unique within a document).
GtEntryOf(id) == CHOOSE g \in {GtAnswers[j] : j \in 1..Len(GtAnswers)} : g["id"] = id

\* The (theme, code) pairs an entry carries, whatever their confidence.
EntryItems(entry) == CodeItems(Get(entry, "annotations", EmptyDict))

PairItems(k) == EntryItems(aligned_entries[k][1]) \cup EntryItems(aligned_entries[k][2])

RECURSIVE ItemsUpTo(_)
ItemsUpTo(k) == IF k = 0 THEN 0 ELSE ItemsUpTo(k - 1) + Cardinality(PairItems(k))

Returned == pc = "ready" /\ calls > 0

C10_SkipCount ==
    pc # "loaded" =>
        /\ missing_count = Cardinality(Unmatched)
        /\ Len(aligned_entries) + missing_count = Len(AutoAnswers)
        /\ stdout # <<>>
        /\ stdout[Len(stdout)] =
              [msg |-> "Aligned", aligned |-> Len(aligned_entries), skipped |-> missing_count]
        /\ \A i \in Unmatched : \E n \in 1..Len(stdout) :
              stdout[n] = [msg |-> "NotInGT", id |-> AutoAnswers[i]["id"]]

\* Witness of C10: an alignment that kept a pair and skipped an entry.
C10_Witness ==
    /\ pc = "ready"
    /\ missing_count >= 1
    /\ Len(aligned_entries) >= 1
    /\ Len(aligned_entries) + missing_count = MaxAnswers

\* The confidence of a detail: its confidence field, 1.0 when it has none.
ConfidenceOf(detail) ==
    IF "confidence" \in DOMAIN detail THEN detail["confidence"] ELSE 10

\* Every theme and code name of the input documents.
AllTags == (Themes \cup {"a", "a|b"}) \X (Codes \cup {"c", "b|c"})

\* p is a CodeTag of the entry with a confidence of at least t.
Tagged(entry, p, t) ==
    /\ "annotations" \in DOMAIN entry
    /\ p[1] \in DOMAIN entry["annotations"]
    /\ p[2] \in DOMAIN entry["annotations"][p[1]]
    /\ ConfidenceOf(entry["annotations"][p[1]][p[2]]) >= t

\* The aligned pair the loop handled last.
LastAuto == aligned_entries[idx][1]

LastGt == aligned_entries[idx][2]

\* C2: code-tag extraction.  The sets extracted from the two entries of a pair
\* hold exactly the (theme, code) pairs whose detail has a confidence of at
\* least min_confidence, a detail without a confidence counting as 1.0: it is
\* in for every threshold up to 1.0 and out above; an entry with an empty or
\* absent annotation structure gives the empty set.
C2_CollectCodes ==
    idx > 0 =>
        /\ auto_codes \subseteq AllTags /\ gt_codes \subseteq AllTags
        /\ \A p \in AllTags :
              /\ p \in auto_codes <=> Tagged(LastAuto, p, min_confidence)
              /\ p \in gt_codes <=> Tagged(LastGt, p, min_confidence)
        /\ \A p \in EntryItems(LastAuto) :
              "confidence" \notin DOMAIN LastAuto["annotations"][p[1]][p[2]] =>
                  (p \in auto_codes <=> min_confidence <= 10)
        /\ ("annotations" \notin DOMAIN LastAuto \/ Get(LastAuto, "annotations", EmptyDict) = EmptyDict)
              => auto_codes = {}
        /\ ("annotations" \notin DOMAIN LastGt \/ Get(LastGt, "annotations", EmptyDict) = EmptyDict)
              => gt_codes = {}

\* Witness of C2: at threshold 0.7 an auto entry has a code of confidence 0.5
\* left out and a code without confidence kept, and the GT entry has no
\* annotation structure.
C2_Witness ==
    /\ idx > 0
    /\ min_confidence = MainMinConfidence
    /\ \E p \in EntryItems(LastAuto) : p \notin auto_codes
    /\ \E p \in auto_codes : "confidence" \notin DOMAIN LastAuto["annotations"][p[1]][p[2]]
    /\ "annotations" \notin DOMAIN LastGt
    /\ gt_codes = {}

\* C3: per pair, TP + FN is the size of the GT CodeTag set and TP + FP the
\* size of the auto CodeTag set, both sets being those of the call's
\* threshold; TP, FP and FN are pairwise disjoint and cover the two sets.
C3_PairCounts ==
    idx > 0 =>
        /\ Cardinality(tps) + Cardinality(fns) =
              Cardinality({p \in AllTags : Tagged(LastGt, p, min_confidence)})
        /\ Cardinality(tps) + Cardinality(fps) =
              Cardinality({p \in AllTags : Tagged(LastAuto, p, min_confidence)})
        /\ tps \cap fps = {} /\ tps \cap fns = {} /\ fps \cap fns = {}
        /\ tps \cup fps \cup fns = auto_codes \cup gt_codes

\* Witness of C3: a pair with a true positive, a false positive and a false
\* negative.
C3_Witness ==
    /\ idx > 0
    /\ tps # {} /\ fps # {} /\ fns # {}

RECURSIVE SumOf(_, _, _)
SumOf(counts, keys, field) ==
    IF keys = {} THEN 0
    ELSE LET k == CHOOSE k \in keys : TRUE
         IN counts[k][field] + SumOf(counts, keys \ {k}, field)

\* C4: the global TP, FP and FN are the sums of the per-theme ones, and a
\* theme's counters are the sums of the counters of the CodeTags of that theme.
C4_ThemePartition ==
    /\ tp_global = SumOf(per_theme_counts, DOMAIN per_theme_counts, "tp")
    /\ fp_global = SumOf(per_theme_counts, DOMAIN per_theme_counts, "fp")
    /\ fn_global = SumOf(per_theme_counts, DOMAIN per_theme_counts, "fn")
    /\ {p[1] : p \in DOMAIN per_code_counts} = DOMAIN per_theme_counts
    /\ \A theme \in DOMAIN per_theme_counts : \A field \in {"tp", "fp", "fn"} :
          per_theme_counts[theme][field] =
              SumOf(per_code_counts, {p \in DOMAIN per_code_counts : p[1] = theme}, field)

\* Witness of C4: after two pairs, two themes have counters and one theme counted
\* two CodeTags in the same field.
C4_Witness ==
    /\ idx = 2
    /\ Cardinality(DOMAIN per_theme_counts) = 2
    /\ \E theme \in DOMAIN per_theme_counts : \E field \in {"tp", "fp", "fn"} :
          per_theme_counts[theme][field] >= 2

\* The sets of the pair handled last, extracted at another threshold.
LastAt(t) == PairSets(LastAuto, LastGt, t)

\* C5 as stated: for a fixed pair and thresholds t1 <= t2, none of TP, FP, FN
\* at t2 is greater than at t1.
C5_Original ==
    idx > 0 =>
        \A t1 \in Thresholds :
            t1 <= min_confidence =>
                /\ Cardinality(tps) <= Cardinality(LastAt(t1).tps)
                /\ Cardinality(fps) <= Cardinality(LastAt(t1).fps)
                /\ Cardinality(fns) <= Cardinality(LastAt(t1).fns)

\* C5 as amended: for a fixed pair and thresholds t1 <= t2, the auto set, the
\* GT set and the true positives at t2 are subsets of those at t1, so TP,
\* TP + FP and TP + FN do not increase; a false positive or false negative at
\* t2 that is none at t1 is a true positive at t1.
C5_Monotone ==
    idx > 0 =>
        \A t \in Thresholds :
            /\ t <= min_confidence =>
                  /\ auto_codes \subseteq LastAt(t).auto_codes
                  /\ gt_codes \subseteq LastAt(t).gt_codes
                  /\ tps \subseteq LastAt(t).tps
                  /\ Cardinality(tps) <= Cardinality(LastAt(t).tps)
                  /\ Cardinality(tps) + Cardinality(fps) <=
                        Cardinality(LastAt(t).tps) + Cardinality(LastAt(t).fps)
                  /\ Cardinality(tps) + Cardinality(fns) <=
                        Cardinality(LastAt(t).tps) + Cardinality(LastAt(t).fns)
                  /\ fps \ LastAt(t).fps \subseteq LastAt(t).tps
                  /\ fns \ LastAt(t).fns \subseteq LastAt(t).tps
            /\ t >= min_confidence =>
                  /\ LastAt(t).tps \subseteq tps
                  /\ LastAt(t).auto_codes \subseteq auto_codes
                  /\ LastAt(t).gt_codes \subseteq gt_codes

\* Witness of C5: at threshold 0.7 a pair has more false positives than the
\* same pair has at threshold 0.5, and fewer true positives.
C5_Witness ==
    /\ idx > 0
    /\ min_confidence = MainMinConfidence
    /\ Cardinality(fps) > Cardinality(LastAt(DefaultMinConfidence).fps)
    /\ Cardinality(tps) < Cardinality(LastAt(DefaultMinConfidence).tps)

\* The report of a counter whose three counts are zero.
ZeroMetrics == ("precision" :> <<0, 1>>) @@ ("recall" :> <<0, 1>>) @@ ("f1-score" :> <<0, 1>>)

\* C6: with zero aligned pairs (an input without entries, or no auto id in
\* GT) the call returns: the report has evaluated_entries = 0, global
\* precision, recall and f1-score 0.0, and empty per_theme and per_code maps.
C6_EmptyAlignment ==
    /\ (pc # "loaded" /\ (AutoAnswers = <<>> \/ GtAnswers = <<>> \/ Matched = {}))
          => aligned_entries = <<>>
    /\ (pc = "loop" /\ aligned_entries = <<>>) => ENABLED EvaluateReturn
    /\ (Returned /\ aligned_entries = <<>>) =>
          /\ results["global"] = ZeroMetrics @@ ("evaluated_entries" :> 0)
          /\ results["per_theme"] = EmptyDict
          /\ results["per_code"] = EmptyDict

\* Witness of C6: a call has returned for two documents that both have
\* entries, none of the auto ids being in GT.
C6_Witness ==
    /\ Returned
    /\ AutoAnswers # <<>> /\ GtAnswers # <<>>
    /\ aligned_entries = <<>>
    /\ results["global"]["evaluated_entries"] = 0

\* m is the float num / den, or 0.0 when den is 0.
IsQuotient(m, num, den) ==
    IF den = 0 THEN m = <<0, 1>>
    ELSE /\ m[2] > 0
         /\ m[1] * den = num * m[2]
         /\ \A d \in 2..m[2] : ~(m[1] % d = 0 /\ m[2] % d = 0)

\* report is derived from the counts c by the three formulas.
Derived(report, c) ==
    /\ IsQuotient(report["precision"], c.tp, c.tp + c.fp)
    /\ IsQuotient(report["recall"], c.tp, c.tp + c.fn)
    /\ IsQuotient(report["f1-score"], 2 * c.tp, 2 * c.tp + c.fp + c.fn)

\* The aligned pairs are the one pair of the scenario: auto {(ThemeA, Code1)}
\* against GT {(ThemeA, Code1), (ThemeA, Code2)}.
IsScenario ==
    /\ Len(aligned_entries) = 1
    /\ EntryItems(aligned_entries[1][1]) = {<<"ThemeA", "Code1">>}
    /\ EntryItems(aligned_entries[1][2]) = {<<"ThemeA", "Code1">>, <<"ThemeA", "Code2">>}

Identical ==
    /\ \A k \in 1..Len(aligned_entries) :
          Get(aligned_entries[k][1], "annotations", EmptyDict) =
              Get(aligned_entries[k][2], "annotations", EmptyDict)
    /\ \E k \in 1..Len(aligned_entries) : PairItems(k) # {}

\* t is at most every confidence present in the aligned pairs.
AtMostEveryConfidence(t) ==
    \A k \in 1..Len(aligned_entries) : \A e \in 1..2 :
        \A p \in EntryItems(aligned_entries[k][e]) :
            t <= ConfidenceOf(aligned_entries[k][e]["annotations"][p[1]][p[2]])

\* C8: identical annotations in every aligned pair, with at least one CodeTag,
\* give at every threshold up to the minimum confidence present FP = FN = 0,
\* TP > 0 and global precision = recall = f1-score = 1.
C8_IdenticalIsPerfect ==
    (Returned /\ Identical /\ AtMostEveryConfidence(min_confidence)) =>
        /\ fp_global = 0 /\ fn_global = 0 /\ tp_global > 0
        /\ results["global"]["precision"] = <<1, 1>>
        /\ results["global"]["recall"] = <<1, 1>>
        /\ results["global"]["f1-score"] = <<1, 1>>

\* Witness of C8: two identical aligned pairs with CodeTags were evaluated at
\* a threshold equal to the minimum confidence present.
C8_Witness ==
    /\ Returned
    /\ Len(aligned_entries) = 2
    /\ Identical
    /\ \A k \in 1..2 : PairItems(k) # {}
    /\ AtMostEveryConfidence(min_confidence)
    /\ ~AtMostEveryConfidence(min_confidence + 1)
    /\ tp_global = 2

\* C9 as stated: distinct counted (theme, code) pairs get distinct report keys,
\* so per_code has one entry per counted CodeTag, each with the metrics of its
\* own counter.
C9_CollisionFree ==
    Returned =>
        /\ \A p, q \in DOMAIN per_code_counts :
              p # q => Key(p[1], p[2]) # Key(q[1], q[2])
        /\ Cardinality(DOMAIN results["per_code"]) = Cardinality(DOMAIN per_code_counts)
        /\ \A p \in DOMAIN per_code_counts :
              Derived(results["per_code"][Key(p[1], p[2])], per_code_counts[p])

(***************************************************************************)
(* C11                                                                     *)
(***************************************************************************)
Malformed ==
    ~({"question", "answers"} \subseteq (DOMAIN auto_data \cap DOMAIN gt_data))

\* C11: when either loaded document lacks "question" or "answers", the
\* constructor raises: it ends in failure with no pair aligned, and there is
\* no Evaluator whose evaluate_precision_recall could be entered, so no call
\* is ever made or completed.
C11_MalformedFails ==
    (Malformed /\ pc # "loaded") =>
        /\ pc = "failed"
        /\ aligned_entries = <<>>
        /\ calls = 0
        /\ ~ENABLED (\E t \in Thresholds : EvaluateBegin(t))

\* The constructor raised on the "answers" missing from the auto document,
\* the last subscript evaluated, after the warning about the questions.
C11_Witness ==
    /\ pc = "failed"
    /\ "answers" \notin DOMAIN auto_data
    /\ {"question", "answers"} \subseteq DOMAIN gt_data
    /\ Len(gt_data["answers"]) > 0
    /\ stdout = <<[msg |-> "QuestionsDiffer"]>>

(***************************************************************************)
(* C12                                                                     *)
(***************************************************************************)
\* C12: a step of evaluate_precision_recall leaves auto_data, gt_data and
\* aligned_entries as they are, and whenever a call with threshold t has
\* returned, whatever calls came before it, its report is the first report
\* this Evaluator returned for t.
C12_SameReport ==
    /\ [](Returned =>
            /\ min_confidence \in DOMAIN first_reports
            /\ results = first_reports[min_confidence])
    /\ [][pc # "loaded" => UNCHANGED <<auto_data, gt_data, aligned_entries>>]_vars

\* The second call with one threshold has returned a report with true and
\* false positives.
C12_Witness ==
    /\ Returned
    /\ calls = 2
    /\ DOMAIN first_reports = {min_confidence}
    /\ tp_global > 0
    /\ fp_global > 0

(***************************************************************************)
(* C13                                                                     *)
(***************************************************************************)
\* The accumulators a run has after its first n pairs when it runs alone.
RECURSIVE AloneCounters(_, _, _)
AloneCounters(entries, n, t) ==
    IF n = 0 THEN FreshCounters
    ELSE Accumulate(AloneCounters(entries, n - 1, t), entries[n], t)

\* C13: in every interleaving of the per-pair steps of the two runs, the
\* accumulators of a run inside its loop are those it has at that point when
\* it runs alone (the other run has not written them), and the report a run
\* returns is the report it returns when it runs alone.
C13_RunsIsolated ==
    \A r \in Runs :
        /\ runs[r].pc = "loop" =>
              counters[CountersOf(r)] =
                  AloneCounters(copies[r], runs[r].idx, runs[r].min_confidence)
        /\ runs[r].pc = "done" =>
              runs[r].results =
                  Report(AloneCounters(copies[r], Len(copies[r]), runs[r].min_confidence),
                         Len(copies[r]), hash_order)

\* Run A has returned a report with a true positive while run B, entered
\* with another threshold after A had counted its first pair, is in the
\* middle of its loop.
C13_Witness ==
    /\ runs["A"].pc = "done"
    /\ runs["B"].pc = "loop"
    /\ runs["B"].idx = 1
    /\ Len(copies["B"]) = 2
    /\ runs["A"].min_confidence # runs["B"].min_confidence
    /\ counters["A"].tp_global > 0
    /\ counters["B"] # counters["A"]

(***************************************************************************)
(* C14                                                                     *)
(***************************************************************************)
\* Another instance of the class of pipeline j has completed run(), and the
\* output file it returned is still there.
CompletedByAnother(j) ==
    \E i \in DOMAIN pipelines \ {j} :
        /\ pipelines[i].class = pipelines[j].class
        /\ pipelines[i].returned # ""
        /\ pipelines[i].returned \in DOMAIN files

\* C14: when another instance of its class has completed run() on the same
\* input file and model and the recorded output file still exists, run() of
\* a new instance with use_cache=True returns that path, and it neither
\* calls the LLM nor rewrites an output file nor changes the cache.
C14_CacheHit ==
    [][\A j \in DOMAIN pipelines :
          (/\ pipelines[j].use_cache
           /\ pipelines[j].log_open
           /\ CompletedByAnother(j)
           /\ Run(j))
          => /\ ~last'.raised
             /\ last'.returned \in {pipelines[i].returned : i \in DOMAIN pipelines \ {j}}
             /\ last'.llm_calls = 0
             /\ files' = files
             /\ cache' = cache
             /\ cache_exists' = cache_exists]_vars

(***************************************************************************)
(* C15                                                                     *)
(***************************************************************************)
\* C15: the pipeline name of an instance is the result of __str__ when its
\* class implements __str__ and the class name otherwise, so two instances
\* of a class without __str__ have the same pipeline name.
C15_PipelineName ==
    \A i, j \in DOMAIN pipelines :
        LET p == pipelines[i]
            q == pipelines[j]
        IN /\ _get_pipeline_name(p.class, p.address) =
                 (IF ImplementsStr(p.class) THEN Str(p.class, p.address) ELSE <<p.class>>)
           /\ (p.class = q.class /\ ~ImplementsStr(p.class)) =>
                 _get_pipeline_name(p.class, p.address) =
                     _get_pipeline_name(q.class, q.address)

(***************************************************************************)
(* C16                                                                     *)
(***************************************************************************)
\* C16: a run() that raises writes no output file, leaves every cache entry
\* as it was and leaves self.data as it was or as load_data read it, never
\* the partially annotated copy; a run() that returns without a cache hit
\* leaves under its key a cache entry with the output path it returned.
C16_CacheAfterSuccess ==
    [][\A j \in DOMAIN pipelines :
          Run(j) =>
            LET key == CacheKey(pipelines[j].class, pipelines[j].address) IN
            /\ last'.raised =>
                  /\ files' = files
                  /\ cache' = cache
                  /\ pipelines'[j].data \in {pipelines[j].data, input_data}
            /\ (~last'.raised /\ ~last'.hit) =>
                  /\ key \in DOMAIN cache'
                  /\ cache'[key].output_path = last'.returned
                  /\ last'.returned \in DOMAIN files']_vars

\* A run() raised at its second entry, after the LLM had answered for the
\* first one, while the cache holds the entry of an earlier run.
C16_Witness ==
    /\ last.op = "run"
    /\ last.raised
    /\ last.llm_calls = 2
    /\ pipelines[last.instance].data = input_data
    /\ DOMAIN cache # {}
    /\ CacheKey(pipelines[last.instance].class, pipelines[last.instance].address)
           \notin DOMAIN cache

(***************************************************************************)
(* C17                                                                     *)
(***************************************************************************)
\* The ids of the entries of the input file.
InputIds == {input_data["answers"][k]["id"] : k \in 1..Len(input_data["answers"])}

\* The entry of the input file with an id.
InputEntry(id) == EntryMap(input_data["answers"])[id]

\* Those of a list of ids that are ids of the input file, in their order.
Found(ids) == SelectSeq(ids, LAMBDA id : id \in InputIds)

\* C17: when run_multiple(target_ids) has returned, the answers of the saved
\* output file are the entries of the example ids found in the input, as
\* the input has them, followed by one annotated entry for each target id
\* found in the input, in the order of target_ids.
C17_ExamplesAndTargets ==
    (last.op = "run_multiple" /\ ~last.raised) =>
        LET self == pipelines[last.instance]
            examples == Found(self.example_ids)
            targets == Found(last.given)
            saved == files[self.output_path]["answers"]
        IN /\ Len(saved) = Len(examples) + Len(targets)
           /\ \A k \in 1..Len(examples) : saved[k] = InputEntry(examples[k])
           /\ \A k \in 1..Len(targets) :
                 /\ saved[Len(examples) + k]["id"] = targets[k]
                 /\ "annotations" \in DOMAIN saved[Len(examples) + k]

(***************************************************************************)
(* C18                                                                     *)
(***************************************************************************)
\* C18: annotate_entry of every pipeline class, whatever the text and the
\* response of the LLM, returns the entry with annotations that satisfy
\* validate_annotation_structure: for a blank text No Responses/Blank with
\* confidence 1.0 and no call of the LLM, otherwise the annotation of the
\* response when that is structurally valid, and Error/InvalidFormat or
\* Error/InvalidJSON with confidence 0.0 when it is not.
C18_AnnotateEntry ==
    (last.op = "annotate_entry" /\ ~last.given[1].outcome.raised) =>
        /\ ~last.raised
        /\ LET entry == last.given[1].entry
               annotations == last.result[1]["annotations"]
               parsed == clean_and_parse_json(last.given[1].outcome.response)
               usable == /\ parsed.ok
                         /\ IsDict(parsed.value)
                         /\ validate_annotation_structure(
                                Get(parsed.value, "annotations", EmptyDict))
           IN /\ validate_annotation_structure(annotations)
              /\ last.result[1]["id"] = entry["id"]
              /\ IF Strip(entry["text"]) = <<>>
                 THEN /\ DOMAIN annotations = {"No Responses"}
                      /\ DOMAIN annotations["No Responses"] = {"Blank"}
                      /\ annotations["No Responses"]["Blank"]["confidence"] = JNum(10)
                      /\ last.llm_calls = 0
                 ELSE IF usable
                 THEN annotations = Get(parsed.value, "annotations", EmptyDict)
                 ELSE /\ DOMAIN annotations = {"Error"}
                      /\ \E code \in {"InvalidFormat", "InvalidJSON"} :
                            /\ DOMAIN annotations["Error"] = {code}
                            /\ annotations["Error"][code]["confidence"] = JNum(0)

(***************************************************************************)
(* C19                                                                     *)
(***************************************************************************)
\* C19: whatever run_single and run_multiple calls the FewShotPipeline has
\* served before, run_single(target_id) reports "not found in input file" only
\* for an id the input file does not have, and the entry it returns for an
\* id of the input file is that entry of the input file, annotated.
C19_RunSingle ==
    last.op = "run_single" =>
        LET target_id == last.given[1] IN
        /\ last.not_found => target_id \notin InputIds
        /\ (target_id \in InputIds /\ ~last.raised) =>
              /\ ~last.not_found
              /\ Len(last.result) = 1
              /\ last.result[1]["id"] = target_id
              /\ last.result[1]["text"] = InputEntry(target_id)["text"]
              /\ "annotations" \in DOMAIN last.result[1]

====
